---------------------------- MODULE Spec2Model ----------------------------
(***************************************************************************)
(* A model of PDFParser (src/main.py): heading classification, section     *)
(* tracking, paragraph segmentation, primary table extraction, fallback    *)
(* table reconciliation and the parse_pdf driver.                          *)
(*                                                                         *)
(* Strings are sequences of one-character strings.  Python's None is the   *)
(* value None, which is no string of the model.                            *)
(***************************************************************************)
EXTENDS Naturals, Sequences, FiniteSets

VARIABLES
    pdf,                  \* the file at self.pdf_path, as the two backends read it
    pages_data,           \* self.pages_data
    current_section,      \* self.current_section
    current_sub_section,  \* self.current_sub_section
    result,               \* what the last parse_pdf call gave its caller
    call_log,             \* history: the backend failure met by each parse_pdf call
    unit,                 \* which specification runs, and the function it has applied
    line,                 \* unit specifications: the line handed to the function
    is_heading_ret,       \* unit specifications: what _is_heading returned
    page_tables,          \* unit specifications: what page.extract_tables() returned
    tables                \* unit specifications: what _extract_tables_pdfplumber returned

vars == <<pdf, pages_data, current_section, current_sub_section, result, call_log,
          unit, line, is_heading_ret, page_tables, tables>>

None == <<"None">>

(***************************************************************************)
(* Bounds.                                                                 *)
(***************************************************************************)
MaxLineLen == 4
MaxHeadingLen == 3
MaxSize == 5
MaxTableSize == 6

(***************************************************************************)
(* Characters: one representative of each class the regular expressions    *)
(* and str.strip tell apart.  "#" stands for any other character.          *)
(***************************************************************************)
Upper == {"A"}
Lower == {"a"}
Digit == {"1"}
Space == {" "}
Alphabet == Upper \cup Lower \cup Digit \cup Space \cup {".", ":", "#"}
NotPeriod == Alphabet \ {"."}

StringsUpTo(n) == UNION {[1..k -> Alphabet] : k \in 0..n}

\* str.strip(): leading and trailing whitespace removed.
Strip(s) ==
    LET keep == {i \in 1..Len(s) : s[i] \notin Space}
        lo == CHOOSE i \in keep : \A j \in keep : i <= j
        hi == CHOOSE i \in keep : \A j \in keep : j <= i
    IN  IF keep = {} THEN <<>> ELSE SubSeq(s, lo, hi)

(***************************************************************************)
(* re.match: a pattern is a sequence of items, each a character class with *)
(* a quantifier ("1", "?", "+", "*") or the end anchor "$".  The match is  *)
(* anchored at the start of the string and, without "$", may end anywhere. *)
(***************************************************************************)
Item(cls, q) == [cls |-> cls, q |-> q]
EndAnchor == [cls |-> {}, q |-> "$"]

RECURSIVE MatchFrom(_, _, _, _)
MatchFrom(pat, k, s, i) ==
    IF k > Len(pat) THEN TRUE
    ELSE LET it == pat[k]
             run(n) == \A j \in i..(i + n - 1) : s[j] \in it.cls
             rest == Len(s) - i + 1
         IN  CASE it.q = "$" -> i = Len(s) + 1 /\ MatchFrom(pat, k + 1, s, i)
               [] it.q = "1" -> rest >= 1 /\ run(1) /\ MatchFrom(pat, k + 1, s, i + 1)
               [] it.q = "?" -> \/ rest >= 1 /\ run(1) /\ MatchFrom(pat, k + 1, s, i + 1)
                                \/ MatchFrom(pat, k + 1, s, i)
               [] it.q = "+" -> \E n \in 1..rest : run(n) /\ MatchFrom(pat, k + 1, s, i + n)
               [] it.q = "*" -> \E n \in 0..rest : run(n) /\ MatchFrom(pat, k + 1, s, i + n)

re_match(pat, s) == MatchFrom(pat, 1, s, 1)

\* r'^[A-Z][A-Z\s]+$'
pattern_all_capitals ==
    <<Item(Upper, "1"), Item(Upper \cup Space, "+"), EndAnchor>>
\* r'^\d+\.?\s+[A-Z]'
pattern_section_numbers ==
    <<Item(Digit, "+"), Item({"."}, "?"), Item(Space, "+"), Item(Upper, "1")>>
\* r'^[A-Z][^.]*:$'
pattern_colon ==
    <<Item(Upper, "1"), Item(NotPeriod, "*"), Item({":"}, "1"), EndAnchor>>
\* r'^\s*[A-Z][a-z]+\s+[A-Z]'
pattern_title_case ==
    <<Item(Space, "*"), Item(Upper, "1"), Item(Lower, "+"), Item(Space, "+"),
      Item(Upper, "1")>>

heading_patterns ==
    <<pattern_all_capitals, pattern_section_numbers, pattern_colon,
      pattern_title_case>>

\* A slip _is_heading could have: the title-case pattern left out.
is_heading_without_title_case(l) ==
    \E k \in 1..3 : re_match(heading_patterns[k], Strip(l))

_is_heading(l) ==
    \E k \in 1..Len(heading_patterns) : re_match(heading_patterns[k], Strip(l))

\* r'^\d+\.?\s+' of _update_sections
pattern_numbered ==
    <<Item(Digit, "+"), Item({"."}, "?"), Item(Space, "+")>>

\* Python truthiness of an Optional[str]
Truthy(v) == v # None /\ v # <<>>

\* A slip _update_sections could have: the sub-section kept under a new
\* numbered section.
update_sections_keeping_sub(l, section, sub_section) ==
    LET s == Strip(l)
    IN  IF re_match(pattern_numbered, s)
        THEN [section |-> s, sub_section |-> sub_section]
        ELSE IF Truthy(section)
        THEN [section |-> section, sub_section |-> s]
        ELSE [section |-> s, sub_section |-> sub_section]

\* A slip _update_sections could have: a sub-section set with no section.
update_sections_sub_first(l, section, sub_section) ==
    LET s == Strip(l)
    IN  IF re_match(pattern_numbered, s)
        THEN [section |-> s, sub_section |-> None]
        ELSE [section |-> section, sub_section |-> s]

\* The cursor after _update_sections(l) from the cursor (section, sub_section).
_update_sections(l, section, sub_section) ==
    LET s == Strip(l)
    IN  IF re_match(pattern_numbered, s)
        THEN [section |-> s, sub_section |-> None]
        ELSE IF Truthy(section)
        THEN [section |-> section, sub_section |-> s]
        ELSE [section |-> s, sub_section |-> sub_section]

\* Labels a cursor can hold: stripped heading lines.
PriorLabels == {<<"1", " ", "A">>, <<"A", "A">>}
PriorCursors ==
    {[section |-> None, sub_section |-> None]}
    \cup {[section |-> s, sub_section |-> None] : s \in PriorLabels}
    \cup {[section |-> s, sub_section |-> t] : s \in PriorLabels, t \in PriorLabels}

(***************************************************************************)
(* _extract_paragraphs.  text is the sequence text.split('\n'); the loop   *)
(* state is the paragraphs emitted, the buffer current_paragraph and the   *)
(* cursor.                                                                 *)
(***************************************************************************)
RECURSIVE Join(_)
\* ' '.join(lines)
Join(lines) ==
    IF Len(lines) = 0 THEN <<>>
    ELSE IF Len(lines) = 1 THEN lines[1]
    ELSE lines[1] \o <<" ">> \o Join(Tail(lines))

\* self._detect_section(paragraph_text)
_detect_section(text, section, sub_section) ==
    [section |-> section, sub_section |-> sub_section]

flush_blank_line(st) ==
    IF st.current_paragraph # <<>>
    THEN LET paragraph_text == Join(st.current_paragraph)
             c == _detect_section(paragraph_text, st.section, st.sub_section)
         IN  [st EXCEPT
                !.paragraphs =
                    IF paragraph_text # <<>>
                    THEN Append(@, [type |-> "paragraph",
                                    section |-> c.section,
                                    sub_section |-> c.sub_section,
                                    text |-> paragraph_text])
                    ELSE @,
                !.current_paragraph = <<>>]
    ELSE st

flush_heading(st) ==
    IF st.current_paragraph # <<>>
    THEN LET paragraph_text == Join(st.current_paragraph)
             c == _detect_section(paragraph_text, st.section, st.sub_section)
         IN  [st EXCEPT
                !.paragraphs =
                    IF paragraph_text # <<>>
                    THEN Append(@, [type |-> "paragraph",
                                    section |-> c.section,
                                    text |-> paragraph_text])
                    ELSE @,
                !.current_paragraph = <<>>]
    ELSE st

flush_end_of_text(st) ==
    IF st.current_paragraph # <<>>
    THEN LET paragraph_text == Join(st.current_paragraph)
             c == _detect_section(paragraph_text, st.section, st.sub_section)
         IN  [st EXCEPT
                !.paragraphs =
                    IF paragraph_text # <<>>
                    THEN Append(@, [type |-> "paragraph",
                                    section |-> c.section,
                                    sub_section |-> c.sub_section,
                                    text |-> paragraph_text])
                    ELSE @]
    ELSE st

\* The loop's state with the cursor c.
with_cursor(st, c) ==
    [st EXCEPT !.section = c.section, !.sub_section = c.sub_section]

\* self._update_sections(line)
update_cursor(st, l) ==
    with_cursor(st, _update_sections(l, st.section, st.sub_section))

\* A slip the heading branch could have: the cursor advanced before the
\* buffered paragraph is flushed.
heading_line_update_first(st, l) == flush_heading(update_cursor(st, l))

\* The branch taken for a heading line: flush, then advance the cursor.
heading_line(st, l) == update_cursor(flush_heading(st), l)

\* One iteration of the loop over the lines.
line_step(st, raw) ==
    LET l == Strip(raw)
    IN  IF l = <<>> THEN flush_blank_line(st)
        ELSE IF _is_heading(l) THEN heading_line(st, l)
        ELSE [st EXCEPT !.current_paragraph = Append(@, l)]

RECURSIVE line_loop(_, _, _)
line_loop(lines, k, st) ==
    IF k > Len(lines) THEN st
    ELSE line_loop(lines, k + 1, line_step(st, lines[k]))

\* The paragraphs of one page's text and the cursor it leaves.
\* return paragraphs, with the cursor the loop left
paragraphs_found(st) ==
    [paragraphs |-> st.paragraphs,
     section |-> st.section, sub_section |-> st.sub_section]

\* The paragraphs of one page's text and the cursor it leaves.
_extract_paragraphs(text, section, sub_section) ==
    paragraphs_found(flush_end_of_text(line_loop(text, 1,
        [paragraphs |-> <<>>, current_paragraph |-> <<>>,
         section |-> section, sub_section |-> sub_section])))

(***************************************************************************)
(* _extract_tables_pdfplumber.  A raw table is a sequence of rows, a row a  *)
(* sequence of cells, a cell None or a string.                             *)
(***************************************************************************)
\* cell.strip() if cell else ""
clean_cell(cell) == IF Truthy(cell) THEN Strip(cell) ELSE <<>>

clean_row(row) == [j \in 1..Len(row) |-> clean_cell(row[j])]

\* any(cleaned_row)
any_cell(cleaned_row) == \E j \in 1..Len(cleaned_row) : cleaned_row[j] # <<>>

\* A slip the row loop could have: rows kept whether or not a cell is left.
clean_table_keeping_empty_rows(table) ==
    [k \in 1..Len(table) |-> clean_row(table[k])]

\* cleaned_table of a raw table
clean_table(table) ==
    SelectSeq([k \in 1..Len(table) |-> clean_row(table[k])], any_cell)

RECURSIVE tables_loop(_, _, _, _, _)
\* i is enumerate's index, from 0.
tables_loop(raw_tables, i, section, sub_section, page_num) ==
    IF i >= Len(raw_tables) THEN <<>>
    ELSE LET table == raw_tables[i + 1]
             rest == tables_loop(raw_tables, i + 1, section, sub_section, page_num)
         IN  IF table # <<>> /\ Len(table) > 0 /\ clean_table(table) # <<>>
             THEN <<[type |-> "table",
                     section |-> section,
                     sub_section |-> sub_section,
                     description |-> [fmt |-> "table {} from page {}",
                                      args |-> <<i + 1, page_num>>],
                     table_data |-> clean_table(table)]>> \o rest
             ELSE rest

_extract_tables_pdfplumber(raw_tables, section, sub_section, page_num) ==
    tables_loop(raw_tables, 0, section, sub_section, page_num)

(***************************************************************************)
(* _detect_charts.                                                         *)
(***************************************************************************)
ChartMinSize == 100

RECURSIVE charts_loop(_, _, _, _, _)
charts_loop(images, i, section, sub_section, page_num) ==
    IF i >= Len(images) THEN <<>>
    ELSE LET img == images[i + 1]
             rest == charts_loop(images, i + 1, section, sub_section, page_num)
         IN  IF img.width > ChartMinSize /\ img.height > ChartMinSize
             THEN <<[type |-> "chart",
                     section |-> section,
                     sub_section |-> sub_section,
                     description |-> [fmt |-> "Chart/Image {} detected on page {}",
                                      args |-> <<i + 1, page_num>>],
                     image_info |-> [width |-> img.width, height |-> img.height,
                                     x0 |-> img.x0, y0 |-> img.y0]]>> \o rest
             ELSE rest

_detect_charts(images, section, sub_section, page_num) ==
    charts_loop(images, 0, section, sub_section, page_num)

(***************************************************************************)
(* Backend failures.  A parse_pdf call meets at most one: pdfplumber.open, *)
(* or extract_text, extract_tables or images of one page, or               *)
(* camelot.read_pdf.                                                       *)
(***************************************************************************)
Failure(at, page) == [at |-> at, page |-> page]
NoFailure == Failure("none", 0)
FailuresOf(d) ==
    {NoFailure, Failure("open", 0), Failure("camelot", 0)}
    \cup {Failure(at, p) : at \in {"extract_text", "extract_tables", "images"},
                           p \in 1..Len(d.pages)}

(***************************************************************************)
(* _process_page: the page's content and the cursor it leaves, or raised   *)
(* with the cursor as the failure found it.                                *)
(***************************************************************************)
\* The page from its tables on; p is what _extract_paragraphs returned.
page_after_text(page, page_num, p, f) ==
    IF f = Failure("extract_tables", page_num) \/ f = Failure("images", page_num)
    THEN [raised |-> TRUE, section |-> p.section, sub_section |-> p.sub_section,
          page_content |-> [page_number |-> page_num, content |-> <<>>]]
    ELSE [raised |-> FALSE, section |-> p.section,
          sub_section |-> p.sub_section,
          page_content |->
             [page_number |-> page_num,
              content |->
                 p.paragraphs
                 \o _extract_tables_pdfplumber(page.tables, p.section,
                                               p.sub_section, page_num)
                 \o _detect_charts(page.images, p.section, p.sub_section,
                                   page_num)]]

_process_page(page, page_num, section, sub_section, f) ==
    IF f = Failure("extract_text", page_num)
    THEN [raised |-> TRUE, section |-> section, sub_section |-> sub_section,
          page_content |-> [page_number |-> page_num, content |-> <<>>]]
    ELSE page_after_text(page, page_num,
             IF page.text # <<>>
             THEN _extract_paragraphs(page.text, section, sub_section)
             ELSE [paragraphs |-> <<>>, section |-> section,
                   sub_section |-> sub_section],
             f)

(***************************************************************************)
(* _extract_tables_with_camelot.  A fallback table has the page camelot    *)
(* found it on and its data frame (the column labels and the value rows).  *)
(***************************************************************************)
\* df.empty
DfEmpty(df) == Len(df.columns) = 0 \/ Len(df.values) = 0

IsTable(content) == content.type = "table"

\* A slip the appended block could have: stamped with no section.
camelot_table_unstamped(section, sub_section, page_num, table_data) ==
    [type |-> "table",
     section |-> None,
     sub_section |-> None,
     description |-> [fmt |-> "extracted table from page {}",
                      args |-> <<page_num>>],
     table_data |-> table_data]

\* The block appended for a fallback table.
camelot_table(section, sub_section, page_num, table_data) ==
    [type |-> "table",
     section |-> section,
     sub_section |-> sub_section,
     description |-> [fmt |-> "extracted table from page {}",
                      args |-> <<page_num>>],
     table_data |-> table_data]

RECURSIVE camelot_loop(_, _, _, _, _)
\* i is enumerate's index over all the tables of the document, from 0.
camelot_loop(found, i, pages, section, sub_section) ==
    IF i >= Len(found) THEN pages
    ELSE LET table == found[i + 1]
             df == table.df
             table_data == <<df.columns>> \o df.values
             page_num == table.page
             existing_tables ==
                 SelectSeq(pages[page_num].content, IsTable)
             appended ==
                 [pages EXCEPT ![page_num].content =
                     Append(@, camelot_table(section, sub_section, page_num,
                                             table_data))]
         IN  camelot_loop(found, i + 1,
                 IF /\ ~DfEmpty(df)
                    /\ page_num <= Len(pages)
                    /\ Len(existing_tables) <= i
                 THEN appended ELSE pages,
                 section, sub_section)

_extract_tables_with_camelot(found, pages, section, sub_section) ==
    camelot_loop(found, 0, pages, section, sub_section)

(***************************************************************************)
(* parse_pdf.                                                              *)
(***************************************************************************)
\* self.pages_data.append(page_content), unless _process_page raised; r is
\* what _process_page gave.
page_appended(st, r) ==
    IF r.raised
    THEN [st EXCEPT !.raised = TRUE, !.section = r.section,
                    !.sub_section = r.sub_section]
    ELSE [st EXCEPT !.pages = Append(@, r.page_content),
                    !.section = r.section,
                    !.sub_section = r.sub_section]

RECURSIVE page_loop(_, _, _, _)
\* The loop over enumerate(pdf.pages, 1), from page k on.
page_loop(d, k, st, f) ==
    IF k > Len(d.pages) \/ st.raised THEN st
    ELSE page_loop(d, k + 1,
             page_appended(st, _process_page(d.pages[k], k, st.section,
                                             st.sub_section, f)),
             f)

\* An Optional document: <<>>, or one document.
NoDocument == <<>>
NoResult == [kind |-> "none", failure |-> NoFailure, document |-> NoDocument]

\* A slip the handler could have: the pages assembled so far returned.
except_returning_partial(f, pages) ==
    [kind |-> "ok", failure |-> NoFailure,
     document |-> <<[pages |-> pages]>>]

\* except Exception as e: raise
except_raise(f, pages) ==
    [kind |-> "error", failure |-> f, document |-> NoDocument]

\* return {"pages": self.pages_data}
return_pages(st, pages) ==
    [pages |-> pages, section |-> st.section, sub_section |-> st.sub_section,
     result |-> [kind |-> "ok", failure |-> NoFailure,
                 document |-> <<[pages |-> pages]>>]]

\* parse_pdf from the fallback backend on; st is what the loop over the
\* pages left.
after_pages(d, st, f) ==
    IF st.raised \/ f = Failure("camelot", 0)
    THEN [pages |-> st.pages, section |-> st.section,
          sub_section |-> st.sub_section,
          result |-> except_raise(f, st.pages)]
    ELSE return_pages(st,
             _extract_tables_with_camelot(d.fallback, st.pages, st.section,
                                          st.sub_section))

\* The session and the caller's result after a parse_pdf call that meets
\* failure f.
parse_pdf(d, pages, section, sub_section, f) ==
    after_pages(d,
        IF f = Failure("open", 0)
        THEN [pages |-> pages, section |-> section,
              sub_section |-> sub_section, raised |-> TRUE]
        ELSE page_loop(d, 1, [pages |-> pages, section |-> section,
                              sub_section |-> sub_section, raised |-> FALSE], f),
        f)

(***************************************************************************)
(* The files a session is opened on.  A PDF is its pages as pdfplumber     *)
(* reads them (the text lines, the raw tables, the images) and the tables  *)
(* camelot finds in it.  Its size is the number of its pages, lines, raw   *)
(* tables, images and fallback tables.                                     *)
(***************************************************************************)
PdfLines ==
    {<<" ">>,                      \* a blank line
     <<"1", ".", " ", "A">>,       \* a numbered heading
     <<"A", "A">>,                 \* a heading in capitals
     <<" ", "a">>}                 \* a line of body text
PdfRawTables ==
    {<<<<None, <<" ">>>>>>,        \* one row, no cell left after cleaning
     <<<<<<"a", " ">>, None>>>>}   \* one row, one cell left
PdfImages ==
    {[width |-> 150, height |-> 120, x0 |-> 10, y0 |-> 20],
     [width |-> 50, height |-> 200, x0 |-> 10, y0 |-> 20]}
PdfDataFrames ==
    {[columns |-> <<>>, values |-> <<>>],
     [columns |-> <<<<"0">>>>, values |-> <<<<<<"a">>>>>>]}

SeqsOfLen(S, k) == [1..k -> S]

\* The pages holding b lines, raw tables and images in all.
PagesOfSize(b) ==
    UNION {{[text |-> t, tables |-> r, images |-> g] :
                t \in SeqsOfLen(PdfLines, c[1]),
                r \in SeqsOfLen(PdfRawTables, c[2]),
                g \in SeqsOfLen(PdfImages, b - c[1] - c[2])} :
           c \in {x \in (0..b) \X (0..b) : x[1] + x[2] <= b}}

RECURSIVE PageSeqs(_, _)
\* The sequences of n pages holding b lines, raw tables and images in all.
PageSeqs(n, b) ==
    IF n = 0 THEN IF b = 0 THEN {<<>>} ELSE {}
    ELSE UNION {{<<p>> \o d : p \in PagesOfSize(k), d \in PageSeqs(n - 1, b - k)} :
                k \in 0..b}

\* camelot may report a page the primary backend does not have.
FallbackTables(n) == {[page |-> q, df |-> x] : q \in 1..(n + 1), x \in PdfDataFrames}

PdfsOfSize(s) ==
    UNION {{[pages |-> d, fallback |-> c] :
                d \in PageSeqs(x[1], x[2]),
                c \in SeqsOfLen(FallbackTables(x[1]), s - x[1] - x[2])} :
           x \in {y \in (0..s) \X (0..s) : y[1] + y[2] <= s}}

RECURSIVE Sum(_)
Sum(ns) == IF ns = <<>> THEN 0 ELSE Head(ns) + Sum(Tail(ns))

PdfSize(d) ==
    Len(d.pages) + Len(d.fallback)
    + Sum([k \in 1..Len(d.pages) |->
             Len(d.pages[k].text) + Len(d.pages[k].tables) + Len(d.pages[k].images)])

NoPdf == [pages |-> <<>>, fallback |-> <<>>]

(***************************************************************************)
(* Spec: a session opened on a PDF, and parse_pdf called on it again and   *)
(* again.  MaxSize bounds the size of the PDF plus the number of calls.    *)
(***************************************************************************)
Init ==
    /\ pdf \in UNION {PdfsOfSize(s) : s \in 0..(MaxSize - 1)}
    /\ pages_data = <<>>
    /\ current_section = None
    /\ current_sub_section = None
    /\ result = NoResult
    /\ call_log = <<>>
    /\ unit = "session"
    /\ line = <<>>
    /\ is_heading_ret = FALSE
    /\ page_tables = <<>>
    /\ tables = <<>>

ParsePdf ==
    /\ unit = "session"
    /\ PdfSize(pdf) + Len(call_log) < MaxSize
    /\ \E f \in FailuresOf(pdf) :
          \E r \in {parse_pdf(pdf, pages_data, current_section,
                              current_sub_section, f)} :
              /\ pages_data' = r.pages
              /\ current_section' = r.section
              /\ current_sub_section' = r.sub_section
              /\ result' = r.result
              /\ call_log' = Append(call_log, f)
    /\ UNCHANGED <<pdf, unit, line, is_heading_ret, page_tables, tables>>

Next == ParsePdf

Spec == Init /\ [][Next]_vars

(***************************************************************************)
(* SpecTables: _extract_tables_pdfplumber applied once to any raw tables   *)
(* of bounded size (the number of tables, rows and cells).                 *)
(***************************************************************************)
Cells == {None, <<>>, <<" ">>, <<"a">>, <<" ", "a">>}

RECURSIVE RowSeqs(_)
\* The sequences of rows of size s in all, a row counting 1 plus its cells.
RowSeqs(s) ==
    IF s = 0 THEN {<<>>}
    ELSE UNION {{<<r>> \o t : r \in SeqsOfLen(Cells, k - 1), t \in RowSeqs(s - k)} :
                k \in 1..s}

RECURSIVE TableSeqs(_)
\* The sequences of raw tables of size s in all, a table counting 1 plus its
\* rows.
TableSeqs(s) ==
    IF s = 0 THEN {<<>>}
    ELSE UNION {{<<t>> \o u : t \in RowSeqs(k - 1), u \in TableSeqs(s - k)} :
                k \in 1..s}

InitTables ==
    /\ page_tables \in UNION {TableSeqs(s) : s \in 0..MaxTableSize}
    /\ \E c \in PriorCursors :
          /\ current_section = c.section
          /\ current_sub_section = c.sub_section
    /\ unit = "input"
    /\ tables = <<>>
    /\ pdf = NoPdf
    /\ pages_data = <<>>
    /\ result = NoResult
    /\ call_log = <<>>
    /\ line = <<>>
    /\ is_heading_ret = FALSE

CallExtractTables ==
    /\ unit = "input"
    /\ unit' = "_extract_tables_pdfplumber"
    /\ tables' = _extract_tables_pdfplumber(page_tables, current_section,
                                            current_sub_section, 1)
    /\ UNCHANGED <<pdf, pages_data, current_section, current_sub_section, result,
                   call_log, line, is_heading_ret, page_tables>>

NextTables == CallExtractTables

SpecTables == InitTables /\ [][NextTables]_vars

(***************************************************************************)
(* SpecLine: _is_heading and _update_sections applied once to any line of  *)
(* at most MaxLineLen characters, from any cursor the parser can hold.     *)
(***************************************************************************)
Lines == StringsUpTo(MaxLineLen)

InitLine ==
    /\ line \in Lines
    /\ unit = "input"
    /\ is_heading_ret = FALSE
    /\ pdf = NoPdf
    /\ pages_data = <<>>
    /\ result = NoResult
    /\ call_log = <<>>
    /\ page_tables = <<>>
    /\ tables = <<>>
    /\ \E c \in PriorCursors :
          /\ current_section = c.section
          /\ current_sub_section = c.sub_section

CallIsHeading ==
    /\ unit = "input"
    /\ unit' = "_is_heading"
    /\ is_heading_ret' = _is_heading(line)
    /\ UNCHANGED <<pdf, pages_data, current_section, current_sub_section, result,
                   call_log, line, page_tables, tables>>

CallUpdateSections ==
    /\ unit = "input"
    /\ unit' = "_update_sections"
    /\ LET c == _update_sections(line, current_section, current_sub_section)
       IN  /\ current_section' = c.section
           /\ current_sub_section' = c.sub_section
    /\ UNCHANGED <<pdf, pages_data, result, call_log, line, is_heading_ret,
                   page_tables, tables>>

NextLine == CallIsHeading \/ CallUpdateSections

SpecLine == InitLine /\ [][NextLine]_vars

(***************************************************************************)
(* SpecCursor: _update_sections applied to any sequence of heading lines   *)
(* (the lines _extract_paragraphs hands to it), from the cursor __init__   *)
(* sets.                                                                   *)
(***************************************************************************)
HeadingLines == {l \in StringsUpTo(MaxHeadingLen) : _is_heading(l)}

InitCursor ==
    /\ line = <<>>
    /\ unit = "cursor"
    /\ is_heading_ret = FALSE
    /\ current_section = None
    /\ current_sub_section = None
    /\ pdf = NoPdf
    /\ pages_data = <<>>
    /\ result = NoResult
    /\ call_log = <<>>
    /\ page_tables = <<>>
    /\ tables = <<>>

HeadingLine ==
    \E l \in HeadingLines :
        /\ line' = l
        /\ LET c == _update_sections(l, current_section, current_sub_section)
           IN  /\ current_section' = c.section
               /\ current_sub_section' = c.sub_section
        /\ UNCHANGED <<pdf, pages_data, result, call_log, unit, is_heading_ret,
                   page_tables, tables>>

NextCursor == HeadingLine

SpecCursor == InitCursor /\ [][NextCursor]_vars

(***************************************************************************)
(* Claims about the line-level functions.                                  *)
(***************************************************************************)
AllIn(s, lo, hi, cls) == \A j \in lo..hi : s[j] \in cls

\* The stripped line begins with a digit followed by a period.
BeginsDigitPeriod(s) == Len(s) >= 2 /\ s[1] \in Digit /\ s[2] = "."

\* The stripped line begins with digits, a period and whitespace.
BeginsDigitsPeriodSpace(s) ==
    \E d \in 1..Len(s) :
        /\ AllIn(s, 1, d, Digit)
        /\ Len(s) >= d + 2
        /\ s[d + 1] = "."
        /\ s[d + 2] \in Space

\* C3 as stated: after _update_sections has processed a line that begins with
\* a digit followed by a period, current_sub_section is None.
C3_Original ==
    (unit = "_update_sections" /\ BeginsDigitPeriod(Strip(line)))
        => current_sub_section = None

\* C3 amended: after _update_sections has processed a line whose stripped form
\* begins with digits, a period and whitespace, current_sub_section is None and
\* current_section is the stripped line; every line that _is_heading accepts and
\* that begins with a digit followed by a period is such a line.
C3_SubSectionCleared ==
    /\ (unit = "_update_sections" /\ BeginsDigitsPeriodSpace(Strip(line)))
           => /\ current_sub_section = None
              /\ current_section = Strip(line)
    /\ (_is_heading(line) /\ BeginsDigitPeriod(Strip(line)))
           => BeginsDigitsPeriodSpace(Strip(line))

C3_Witness ==
    /\ unit = "_update_sections"
    /\ line = <<"1", ".", " ", "A">>
    /\ current_section = line
    /\ current_sub_section = None

\* The four heading patterns as the specification words them, on the stripped line.
SpecAllCapitals(s) == Len(s) >= 1 /\ AllIn(s, 1, Len(s), Upper \cup Space)
SpecSectionNumber(s) ==
    \E d \in 1..Len(s), p \in 0..1, w \in 0..Len(s) :
        /\ Len(s) >= d + p + w + 1
        /\ AllIn(s, 1, d, Digit)
        /\ p = 1 => s[d + 1] = "."
        /\ AllIn(s, d + p + 1, d + p + w, Space)
        /\ s[d + p + w + 1] \in Upper
SpecColon(s) ==
    /\ Len(s) >= 2
    /\ s[1] \in Upper
    /\ s[Len(s)] = ":"
    /\ \A j \in 1..Len(s) : s[j] # "."
SpecTitleCase(s) ==
    \E e \in 1..Len(s), w \in 1..Len(s) :
        /\ Len(s) >= e + w + 1
        /\ s[1] \in Upper
        /\ AllIn(s, 2, e, Alphabet \ Space)
        /\ AllIn(s, e + 1, e + w, Space)
        /\ s[e + w + 1] \in Upper

\* The patterns as the code matches them, on the stripped line.
CodeAllCapitals(s) == Len(s) >= 2 /\ AllIn(s, 1, Len(s), Upper \cup Space)
CodeSectionNumber(s) ==
    \E d \in 1..Len(s), p \in 0..1, w \in 1..Len(s) :
        /\ Len(s) >= d + p + w + 1
        /\ AllIn(s, 1, d, Digit)
        /\ p = 1 => s[d + 1] = "."
        /\ AllIn(s, d + p + 1, d + p + w, Space)
        /\ s[d + p + w + 1] \in Upper
CodeTitleCase(s) ==
    \E e \in 2..Len(s), w \in 1..Len(s) :
        /\ Len(s) >= e + w + 1
        /\ s[1] \in Upper
        /\ AllIn(s, 2, e, Lower)
        /\ AllIn(s, e + 1, e + w, Space)
        /\ s[e + w + 1] \in Upper

\* A line made only of lowercase words, and a blank line.
LowercaseWords(l) ==
    /\ AllIn(l, 1, Len(l), Lower \cup Space)
    /\ \E j \in 1..Len(l) : l[j] \in Lower
Blank(l) == AllIn(l, 1, Len(l), Space)

\* C5 as stated: _is_heading accepts every line that matches one of the four
\* patterns of the specification (all capitals of at least 1 character among
\* them) and rejects lowercase-word lines and blank lines.
C5_Original ==
    unit = "_is_heading" =>
        LET s == Strip(line)
        IN  /\ (SpecAllCapitals(s) \/ SpecSectionNumber(s) \/ SpecColon(s)
                    \/ SpecTitleCase(s)) => is_heading_ret
            /\ LowercaseWords(line) => ~is_heading_ret
            /\ Blank(line) => ~is_heading_ret

\* C5 amended: _is_heading accepts every line whose stripped form is all
\* capitals and whitespace of at least 2 characters, or digits, an optional
\* period, whitespace and a capital, or a capital-initial line without period
\* that ends in a colon, or a capital, lowercase letters, whitespace and a
\* capital; it rejects lowercase-word lines and blank lines.
C5_HeadingPatterns ==
    unit = "_is_heading" =>
        LET s == Strip(line)
        IN  /\ (CodeAllCapitals(s) \/ CodeSectionNumber(s) \/ SpecColon(s)
                    \/ CodeTitleCase(s)) => is_heading_ret
            /\ LowercaseWords(line) => ~is_heading_ret
            /\ Blank(line) => ~is_heading_ret

C5_Witness ==
    /\ unit = "_is_heading"
    /\ line = <<"A", "a", " ", "A">>
    /\ is_heading_ret

\* C10: current_sub_section is set only if current_section is set, and a set
\* current_section is never None again.
C10_CursorShape ==
    /\ [](current_sub_section # None => current_section # None)
    /\ [][current_section # None => current_section' # None]_vars

C10_Witness ==
    /\ unit = "cursor"
    /\ current_section = <<"1", " ", "A">>
    /\ current_sub_section = <<"A", "A">>

(***************************************************************************)
(* Claims about _extract_tables_pdfplumber.                                *)
(***************************************************************************)
\* C6: every table _extract_tables_pdfplumber emits has at least one row, and
\* every row of it holds normalized cells (no None, stripped) of which at
\* least one is not empty.
C6_NoEmptyTable ==
    unit = "_extract_tables_pdfplumber" =>
        \A t \in 1..Len(tables) :
            LET data == tables[t].table_data
            IN  /\ Len(data) >= 1
                /\ \A r \in 1..Len(data) :
                      /\ \A j \in 1..Len(data[r]) :
                            data[r][j] # None /\ data[r][j] = Strip(data[r][j])
                      /\ \E j \in 1..Len(data[r]) : data[r][j] # <<>>

\* A raw table with a row of a None and a blank cell and a row with text: one
\* table of one row comes out.
C6_Witness ==
    /\ unit = "_extract_tables_pdfplumber"
    /\ page_tables = <<<<<<None, <<" ">>>>, <<<<" ", "a">>>>>>>>
    /\ Len(tables) = 1
    /\ tables[1].table_data = <<<<<<"a">>>>>>

(***************************************************************************)
(* Claims about parse_pdf.  The first call on a session is the parse of a  *)
(* document from the cursor (None, None).                                  *)
(***************************************************************************)
Last(q) == q[Len(q)]
FirstCall == unit = "session" /\ Len(call_log) = 1
FirstCallReturned == FirstCall /\ result.kind = "ok"

IsParagraph(content) == content.type = "paragraph"
IsExtracted(content) ==
    content.type = "table" /\ content.description.fmt = "extracted table from page {}"
IsPrimary(content) ==
    content.type = "table" /\ content.description.fmt = "table {} from page {}"

Max(a, b) == IF a >= b THEN a ELSE b

\* The non-empty fallback tables camelot reports for page p.
FallbackCount(p) ==
    Cardinality({i \in 1..Len(pdf.fallback) :
                    pdf.fallback[i].page = p /\ ~DfEmpty(pdf.fallback[i].df)})

\* C1 as stated: after the reconciler has processed a sequence of non-empty
\* fallback tables, a page holds at most max(primary count, fallback count for
\* the page) tables.
C1_Original ==
    (FirstCallReturned
        /\ \A i \in 1..Len(pdf.fallback) : ~DfEmpty(pdf.fallback[i].df)) =>
        \A p \in 1..Len(pages_data) :
            LET content == pages_data[p].content
            IN  Len(SelectSeq(content, IsTable))
                    <= Max(Len(SelectSeq(content, IsPrimary)), FallbackCount(p))

\* C2 as stated: every document parse_pdf returns has the page numbers
\* 1, 2, ..., N, whatever calls were made on the session before.
C2_Original ==
    (unit = "session" /\ result.kind = "ok") =>
        LET pages == result.document[1].pages
        IN  [k \in 1..Len(pages) |-> pages[k].page_number]
                = [k \in 1..Len(pdf.pages) |-> k]

Prefix(q, n) == [i \in 1..n |-> q[i]]

\* The lines of pages 1..p, in order.
RECURSIVE AllLines(_)
AllLines(p) == IF p = 0 THEN <<>> ELSE AllLines(p - 1) \o pdf.pages[p].text

\* The lines that precede line k of page p in page-then-line order.
LinesBefore(p, k) == AllLines(p - 1) \o Prefix(pdf.pages[p].text, k - 1)

\* The cursor after SectionTracker.update has been applied, from (None, None),
\* to the heading lines among q.
RECURSIVE CursorAfter(_)
CursorAfter(q) ==
    IF q = <<>> THEN [section |-> None, sub_section |-> None]
    ELSE LET c == CursorAfter(Prefix(q, Len(q) - 1))
         IN  IF _is_heading(Last(q))
             THEN _update_sections(Last(q), c.section, c.sub_section)
             ELSE c

\* The lines of a text that go into paragraphs, and the maximal runs of them.
Body(text, k) == Strip(text[k]) # <<>> /\ ~_is_heading(text[k])
RunStarts(text) ==
    {k \in 1..Len(text) : Body(text, k) /\ (k = 1 \/ ~Body(text, k - 1))}
RunEnd(text, k) ==
    CHOOSE e \in k..Len(text) :
        /\ \A m \in k..e : Body(text, m)
        /\ e = Len(text) \/ ~Body(text, e + 1)
NthRunStart(text, j) ==
    CHOOSE k \in RunStarts(text) :
        Cardinality({m \in RunStarts(text) : m <= k}) = j
RunText(text, k) ==
    Join([m \in 1..(RunEnd(text, k) - k + 1) |-> Strip(text[k + m - 1])])

\* C4 as stated: every paragraph emitted carries a section and a sub_section
\* field, equal to the cursor at the flush, and a non-empty text.
C4_Original ==
    FirstCall =>
        \A p \in 1..Len(pages_data) :
            LET paragraphs == SelectSeq(pages_data[p].content, IsParagraph)
                text == pdf.pages[p].text
            IN  \A j \in 1..Len(paragraphs) :
                    LET c == CursorAfter(LinesBefore(p, NthRunStart(text, j)))
                    IN  /\ {"section", "sub_section"} \subseteq DOMAIN paragraphs[j]
                        /\ paragraphs[j].section = c.section
                        /\ paragraphs[j].sub_section = c.sub_section
                        /\ paragraphs[j].text # <<>>

\* C7: a parse_pdf call that meets a backend failure ends in an error carrying
\* that failure and gives its caller no document; it stops where the failure
\* happened, so each call has added the pages before its failure and no more.
PagesAdded(f) ==
    IF f.at \in {"none", "camelot"} THEN Len(pdf.pages)
    ELSE IF f.at = "open" THEN 0
    ELSE f.page - 1
C7_FailureIsFatal ==
    (unit = "session" /\ call_log # <<>>) =>
        /\ Last(call_log) # NoFailure =>
              /\ result.kind = "error"
              /\ result.failure = Last(call_log)
              /\ result.document = NoDocument
        /\ Len(pages_data) = Sum([k \in 1..Len(call_log) |-> PagesAdded(call_log[k])])

\* The primary backend fails on the tables of page 2, page 1 being assembled.
C7_Witness ==
    /\ FirstCall
    /\ Last(call_log) = Failure("extract_tables", 2)
    /\ Len(pages_data) = 1
    /\ result.kind = "error"

\* C8: the paragraphs of every page are the maximal runs of lines that are
\* neither blank nor headings, in order, each stamped with the section (and,
\* where the block has the field, the sub_section) of the cursor after the
\* heading lines that precede the run in page-then-line order.
C8_SectionStamps ==
    FirstCall =>
        \A p \in 1..Len(pages_data) :
            LET paragraphs == SelectSeq(pages_data[p].content, IsParagraph)
                text == pdf.pages[p].text
            IN  /\ Len(paragraphs) = Cardinality(RunStarts(text))
                /\ \A j \in 1..Len(paragraphs) :
                      LET k == NthRunStart(text, j)
                          c == CursorAfter(LinesBefore(p, k))
                      IN  /\ paragraphs[j].section = c.section
                          /\ paragraphs[j].text = RunText(text, k)
                          /\ "sub_section" \in DOMAIN paragraphs[j]
                                => paragraphs[j].sub_section = c.sub_section

\* Page 1 holds a numbered heading and page 2 a line of body text: the
\* paragraph of page 2 is stamped with the heading of page 1.
C8_Witness ==
    /\ FirstCallReturned
    /\ Len(pdf.pages) = 2
    /\ pdf.pages[1].text = <<<<"1", ".", " ", "A">>>>
    /\ pdf.pages[2].text = <<<<" ", "a">>>>
    /\ pages_data[2].content[1].type = "paragraph"
    /\ pages_data[2].content[1].section = <<"1", ".", " ", "A">>
    /\ pages_data[2].content[1].text = <<"a">>

\* C9: on every page the blocks the reconciler appended come after all the
\* others; each is a table with the description "extracted table from page
\* {page_num}" and the section and sub_section of the cursor after the heading
\* lines of all pages; a page gets no more of them than camelot reports
\* non-empty tables for it, so tables for pages past the last change nothing.
C9_FallbackStamps ==
    FirstCallReturned =>
        LET c == CursorAfter(AllLines(Len(pdf.pages)))
        IN  \A p \in 1..Len(pages_data) :
                LET content == pages_data[p].content
                    extracted == SelectSeq(content, IsExtracted)
                    others == Len(content) - Len(extracted)
                IN  /\ Len(extracted) <= FallbackCount(p)
                    /\ \A j \in 1..Len(content) : IsExtracted(content[j]) <=> j > others
                    /\ \A j \in 1..Len(extracted) :
                          /\ extracted[j].section = c.section
                          /\ extracted[j].sub_section = c.sub_section
                          /\ extracted[j].section = current_section
                          /\ extracted[j].sub_section = current_sub_section
                          /\ extracted[j].description.args = <<p>>

\* Page 1 has no text and page 2 a heading; the table camelot finds on page 1
\* is appended there with the heading of page 2.
C9_Witness ==
    /\ FirstCallReturned
    /\ Len(pdf.pages) = 2
    /\ pdf.pages[1].text = <<>>
    /\ pdf.pages[2].text = <<<<"A", "A">>>>
    /\ Len(pages_data[1].content) = 1
    /\ IsExtracted(pages_data[1].content[1])
    /\ pages_data[1].content[1].section = <<"A", "A">>

=============================================================================
